---- MODULE Spec2Model ----
(***************************************************************************)
(* Smart Recruiter: the candidate-screening pipeline and the REST          *)
(* handlers around it.                                                     *)
(*                                                                         *)
(*   - crews/screening_crew.py: screen_candidate, quick_screen_candidate,  *)
(*     extract_score_from_result, extract_recommendation (pure functions   *)
(*     of the agent output, checked under SpecExtract and SpecScreen);     *)
(*   - api/routes/*.py: the request handlers and the background            *)
(*     screening task over the jobs and candidates tables (Spec, and       *)
(*     SpecPipeline for longer runs of fewer handlers).                    *)
(*                                                                         *)
(* An agent output is a sequence of tokens: the words and numbers the      *)
(* regular expressions of extract_score_from_result look for.  Two tokens  *)
(* that follow each other are adjacent in the text; white space and        *)
(* colons are tokens of their own ("sp", "colon").                         *)
(***************************************************************************)
EXTENDS Integers, Sequences, FiniteSets, TLC

VARIABLES
    \* ---- the crew functions on their own (SpecExtract, SpecScreen) ----
    in_text,      \* the agent output, str(result) of crew.kickoff()
    in_exists,    \* os.path.exists(resume_path)
    in_setup,     \* building the agents, tasks and crew: "ok" or "raise"
    in_kick,      \* crew.kickoff(): "ok" or the task of the crew that raised
    in_batch,     \* the `candidates` list of screen_multiple_candidates
    in_reqs,      \* 'job_requirements' of the input of SkillMatcherTool
    in_skills,    \* 'candidate_skills' of the input of SkillMatcherTool
    out,          \* what the function applied last returned
    \* ---- the service (Spec) ----
    jobs,         \* the jobs table: job id -> row
    cands,        \* the candidates table: candidate id -> row
    files,        \* the resume files on disk, by the candidate id in their name
    job_ids,      \* how many job ids have been generated
    cand_ids,     \* how many candidate ids have been generated
    apps,         \* submit_application requests between their reads and their commit
    dels,         \* delete_job requests between db.delete(job) and their commit
    tasks,        \* run_screening_task background tasks: task -> what is left to do
    last,         \* the response (or background step) completed last
    steps         \* how many handler and task steps the run has left

crewVars == <<in_text, in_exists, in_setup, in_kick, in_batch, in_reqs, in_skills, out>>
apiVars == <<jobs, cands, files, job_ids, cand_ids, apps, dels, tasks, last, steps>>
vars == <<in_text, in_exists, in_setup, in_kick, in_batch, in_reqs, in_skills, out,
          jobs, cands, files, job_ids, cand_ids, apps, dels, tasks, last, steps>>

\* ------------------------------------------------------------------ bounds
MaxTextLen == 4         \* tokens of an agent output (SpecExtract)
MaxScreenTextLen == 2   \* tokens of an agent output (SpecScreen)
MaxFallbackTextLen == 3 \* tokens of an agent output (SpecFallback)
MaxBatch == 3           \* candidates of a screen_multiple_candidates call
MaxReqs == 3            \* job requirements of a SkillMatcherTool input
MaxJobs == 2            \* job ids ever generated
MaxCandidates == 2      \* candidate ids ever generated
MaxTasks == 2           \* background tasks queued or running at once
MaxSteps == 7           \* handler and task steps of a run (Spec)
MaxPipelineSteps == 8   \* handler and task steps of a run (SpecPipeline)

\* ------------------------------------------------------------ agent output
Tok(k) == [k |-> k, v |-> 0]
Num(n) == [k |-> "num", v |-> n]

\* Sample numbers an agent may print: the low end, in range, out of range.
NumSamples == {0, 85, 101}

\* The words of the sample outputs.
WordSamples ==
    {"match_score", "score", "rating", "overall", "stars", "pct", "sp", "colon",
     "meets", "missing", "strong hire", "no hire", "hire"}

Tokens == {Tok(k) : k \in WordSamples} \cup {Num(n) : n \in NumSamples}

\* Two numbers never stand next to each other: their digits would be one number.
WellFormed(t) ==
    \A i \in 1..(Len(t) - 1) : ~(t[i].k = "num" /\ t[i + 1].k = "num")

TextsOfLen(n) == {t \in [1..n -> Tokens] : WellFormed(t)}
Texts == UNION {TextsOfLen(n) : n \in 0..MaxTextLen}

\* ------------------------------------------------- extract_score_from_result
NoMatch == -1

SepAny == {"sp", "colon"}     \* [\s:]
SepSpace == {"sp"}            \* \s

\* The first position from i on whose token is not in seps (Len + 1 if none).
RECURSIVE Skip(_, _, _)
Skip(t, i, seps) ==
    IF i > Len(t) THEN Len(t) + 1
    ELSE IF t[i].k \in seps THEN Skip(t, i + 1, seps)
    ELSE i

\* match_score[\s:]*(\d+) at position i: the captured number, or NoMatch.
PatMatchScore(t, i) ==
    IF t[i].k = "match_score"
    THEN LET j == Skip(t, i + 1, SepAny)
         IN  IF j <= Len(t) /\ t[j].k = "num" THEN t[j].v ELSE NoMatch
    ELSE NoMatch

\* word[\s:]+(\d+) at position i, for a token that ends with the word.
PatWordSepNum(t, i, words) ==
    IF t[i].k \in words /\ i + 1 <= Len(t) /\ t[i + 1].k \in SepAny
    THEN LET j == Skip(t, i + 1, SepAny)
         IN  IF j <= Len(t) /\ t[j].k = "num" THEN t[j].v ELSE NoMatch
    ELSE NoMatch

\* (?:final\s*)?(?:match\s*)?score[\s:]+(\d+): "match_score" ends with "score".
PatScore(t, i) == PatWordSepNum(t, i, {"score", "match_score"})

\* (\d+)\s*(?:%|/100|out of 100)
PatPercent(t, i) ==
    IF t[i].k = "num"
    THEN LET j == Skip(t, i + 1, SepSpace)
         IN  IF j <= Len(t) /\ t[j].k = "pct" THEN t[i].v ELSE NoMatch
    ELSE NoMatch

\* rating[\s:]+(\d+)
PatRating(t, i) == PatWordSepNum(t, i, {"rating"})

\* overall[\s:]+(\d+)
PatOverall(t, i) == PatWordSepNum(t, i, {"overall"})

\* \*\*(\d+)\*\*\s*(?:%|/100)?
PatStars(t, i) ==
    IF /\ t[i].k = "stars"
       /\ i + 2 <= Len(t)
       /\ t[i + 1].k = "num"
       /\ t[i + 2].k = "stars"
    THEN t[i + 1].v
    ELSE NoMatch

\* re.search: the capture of the leftmost match, or NoMatch.
Search(Pat(_, _), t) ==
    LET hits == {i \in 1..Len(t) : Pat(t, i) # NoMatch}
    IN  IF hits = {} THEN NoMatch
        ELSE Pat(t, CHOOSE i \in hits : \A j \in hits : i <= j)

InRange(score) == 0 <= score /\ score <= 100

\* A variant that returns whatever number a pattern captured.
AcceptsAnyNumber(score) == score # NoMatch

\* if match: score = int(match.group(1)); if 0 <= score <= 100: return score
Accepts(score) == score # NoMatch /\ InRange(score)

Count(t, words) == Cardinality({i \in 1..Len(t) : t[i].k \in words})
Has(t, words) == \E i \in 1..Len(t) : t[i].k \in words

MatchWords == {"meets"}       \* meets|has|matches|qualified|proficient
MissWords == {"missing"}      \* missing|lacks|no experience|not found|does not have|gap

\* The tokens whose text contains each phrase ('hire' in result_lower, ...).
WithStrongHire == {"strong hire"}
WithStrongNoHire == {"strong no hire"}
WithNoHire == {"no hire", "strong no hire"}
WithReject == {"reject"}
WithHire == {"hire", "strong hire", "no hire", "strong no hire"}
WithMaybe == {"maybe", "consider"}

Min(a, b) == IF a <= b THEN a ELSE b
Max(a, b) == IF a >= b THEN a ELSE b

BaseScore(t) ==
    LET matches == Count(t, MatchWords)
        misses == Count(t, MissWords)
    IN  IF misses > matches THEN 45
        ELSE IF matches > misses * 2 THEN 70
        ELSE 55

\* A variant that looks for 'hire' before it looks for 'no hire'.
KeywordScoreHireFirst(t) ==
    LET base_score == BaseScore(t)
    IN  IF Has(t, WithStrongHire) THEN Min(base_score + 20, 90)
        ELSE IF Has(t, WithHire) THEN Min(base_score + 10, 80)
        ELSE IF Has(t, WithNoHire) \/ Has(t, WithReject) THEN Max(base_score - 20, 25)
        ELSE base_score

\* The keyword fallback; the tokens that contain each phrase.
KeywordScore(t) ==
    LET base_score == BaseScore(t)
    IN  IF Has(t, WithStrongHire) THEN Min(base_score + 20, 90)
        ELSE IF Has(t, WithNoHire) \/ Has(t, WithReject) THEN Max(base_score - 20, 25)
        ELSE IF Has(t, WithHire) THEN Min(base_score + 10, 80)
        ELSE IF Has(t, WithMaybe) THEN base_score
        ELSE base_score

\* The secondary patterns in the order the code tries them.
SecondaryScore(t) ==
    LET s2 == Search(PatScore, t)
        s3 == Search(PatPercent, t)
        s4 == Search(PatRating, t)
        s5 == Search(PatOverall, t)
        s6 == Search(PatStars, t)
    IN  IF Accepts(s2) THEN s2
        ELSE IF Accepts(s3) THEN s3
        ELSE IF Accepts(s4) THEN s4
        ELSE IF Accepts(s5) THEN s5
        ELSE IF Accepts(s6) THEN s6
        ELSE NoMatch

ExtractBranch(t) ==
    IF Accepts(Search(PatMatchScore, t)) THEN "match_score"
    ELSE IF SecondaryScore(t) # NoMatch THEN "secondary"
    ELSE "keywords"

\* A variant that tries the secondary patterns before MATCH_SCORE.
extract_score_secondary_first(t) ==
    LET s1 == Search(PatMatchScore, t)
    IN  IF SecondaryScore(t) # NoMatch THEN SecondaryScore(t)
        ELSE IF Accepts(s1) THEN s1
        ELSE KeywordScore(t)

extract_score_from_result(t) ==
    LET s1 == Search(PatMatchScore, t)
    IN  IF Accepts(s1) THEN s1
        ELSE IF SecondaryScore(t) # NoMatch THEN SecondaryScore(t)
        ELSE KeywordScore(t)

extract_recommendation(t) ==
    IF Has(t, WithStrongHire) THEN "strong_hire"
    ELSE IF Has(t, WithStrongNoHire) THEN "strong_no_hire"
    ELSE IF Has(t, WithNoHire) THEN "no_hire"
    ELSE IF Has(t, WithHire) THEN "hire"
    ELSE "review"

\* ------------------------------------------------------- screening_crew.py
\* A result dict; `raised` stands for an exception that reaches the caller.
Payload(st, score, err, rec) ==
    [raised |-> FALSE, status |-> st, match_score |-> score, error |-> err,
     recommendation |-> rec]
Raised ==
    [raised |-> TRUE, status |-> "-", match_score |-> 0, error |-> TRUE,
     recommendation |-> "-"]

\* The tasks of the sequential crew; kickoff raises when one of them does.
ScreenSteps == {"parse", "match", "assess"}
QuickSteps == {"assess"}

\* A variant without the try/except around crew.kickoff().
screen_candidate_unguarded(exists, setup, kick, t) ==
    IF ~exists THEN Payload("failed", 0, TRUE, "-")
    ELSE IF setup = "raise" \/ kick # "ok" THEN Raised
    ELSE Payload("completed", extract_score_from_result(t), FALSE,
                 extract_recommendation(t))

screen_candidate(exists, setup, kick, t) ==
    IF ~exists THEN Payload("failed", 0, TRUE, "-")
    ELSE IF setup = "raise" THEN Raised
    ELSE IF kick # "ok" THEN Payload("failed", 0, TRUE, "-")
    ELSE Payload("completed", extract_score_from_result(t), FALSE,
                 extract_recommendation(t))

quick_screen_candidate(setup, kick, t) ==
    IF setup = "raise" THEN Raised
    ELSE IF kick # "ok" THEN Payload("failed", 50, TRUE, "-")
    ELSE Payload("completed", extract_score_from_result(t), FALSE,
                 extract_recommendation(t))

\* ---------------------------------------------------------------- the tables
None == <<>>              \* NULL, an absent optional
Some(x) == <<x>>
Val(m) == m[1]

min_match_score == 60     \* settings.min_match_score
max_file_size_mb == 10    \* settings.max_file_size_mb

JobIds == 1..MaxJobs
CandIds == 1..MaxCandidates
TaskIds == 1..MaxTasks

\* class CandidateStatus(str, Enum)
CandidateStatus ==
    {"applied", "screening", "shortlisted", "interview", "offered", "hired",
     "rejected", "withdrawn"}

\* JobDB(..., status="draft") with the column defaults of the counters.
JobRow(st) ==
    [status |-> st, total_applicants |-> 0, screened_count |-> 0,
     shortlisted_count |-> 0]

\* CandidateDB(id=..., job_id=..., email=..., resume_path=..., status="applied")
\* and the rowid SQLite gives the row when it is inserted.
CandidateRow(j, e, rowid) ==
    [job_id |-> j, email |-> e, status |-> "applied", match_score |-> None,
     recommendation |-> None, rowid |-> rowid]

\* The rowid of the next row of a table: one more than the largest stored.
NextRowid(ct) ==
    IF DOMAIN ct = {} THEN 1
    ELSE 1 + (CHOOSE n \in {ct[c].rowid : c \in DOMAIN ct} :
                 \A c \in DOMAIN ct : ct[c].rowid <= n)

\* A response: the handler, the HTTP status, what it says, the candidate it is
\* about.  A step that sends no response (a background step, a handler at
\* its `await`) has code 0.
Resp(op, code, note, c) == [op |-> op, code |-> code, note |-> note, cand |-> c]

\* One more handler or task step of the run; the crew functions are not part
\* of the service's state.
Step ==
    /\ steps > 0
    /\ steps' = steps - 1
    /\ UNCHANGED crewVars

Extend(f, k, v) == [x \in DOMAIN f \cup {k} |-> IF x = k THEN v ELSE f[x]]
Remove(f, ks) == [x \in DOMAIN f \ ks |-> f[x]]

CandsOf(ct, j) == {c \in DOMAIN ct : ct[c].job_id = j}
ScreenedOf(ct, j) == {c \in CandsOf(ct, j) : ct[c].match_score # None}
ShortlistedOf(ct, j) == {c \in CandsOf(ct, j) : ct[c].status = "shortlisted"}

\* What a query of a request's session reads: the stored table.  The session is
\* made with autoflush=False, so the request's own pending changes are not
\* flushed before the SELECT.
QueryView(stored, pending) == stored

\* recalculate_job_counts(db, job_id), its count queries reading the table ct.
recalculate_job_counts(jt, ct, j) ==
    IF j \notin DOMAIN jt THEN jt
    ELSE [jt EXCEPT ![j].total_applicants = Cardinality(CandsOf(ct, j)),
                    ![j].screened_count = Cardinality(ScreenedOf(ct, j)),
                    ![j].shortlisted_count = Cardinality(ShortlistedOf(ct, j))]

\* A variant that shortlists only above the threshold.
StatusAboveThreshold(score) ==
    IF score > min_match_score THEN "shortlisted" ELSE "rejected"

\* "Set status based on score"
StatusForScore(score) ==
    IF score >= min_match_score THEN "shortlisted" ELSE "rejected"

\* ------------------------------------------------------------------ inputs
Emails == {"a@x.org", "b@x.org"}
FileExts == {".pdf", ".exe"}
AllowedExtensions == {".pdf", ".docx", ".doc"}
FileSizes == {max_file_size_mb * 1024 * 1024, max_file_size_mb * 1024 * 1024 + 1}
JobStatusInputs == {"closed"}
PutStatuses == {"shortlisted"}          \* CandidateUpdate.status: CandidateStatus
PutScores == {150}                      \* CandidateUpdate.match_score: float
PatchStatuses == {"on_hold"}            \* data.get("status"): any string
EmailResults == {"success", "preview", "error"}
Limits == {0, 1}                        \* limit: Optional[int], 0 for None

\* Agent outputs of a screening that ran to its end.
AgentOutputs ==
    {<<Tok("match_score"), Tok("colon"), Num(60), Tok("hire")>>,
     <<Tok("match_score"), Tok("colon"), Num(60), Tok("no hire")>>,
     <<Tok("meets"), Tok("no hire")>>}

\* How a screening goes: building the crew, running it, and what it prints.
Run(setup, kick, t) == [setup |-> setup, kick |-> kick, text |-> t]
Runs ==
    {Run("ok", "ok", t) : t \in AgentOutputs}
        \cup {Run("ok", "assess", <<>>), Run("raise", "ok", <<>>)}

\* --------------------------------------------- screen_multiple_candidates
\* A candidate dict of the list: its id, whether its resume file exists, and
\* how its screening goes.
BatchCandidate(id, exists, run) == [id |-> id, exists |-> exists, run |-> run]

\* result['candidate_id'] = candidate_id
Tagged(result, id) ==
    [status |-> result.status, match_score |-> result.match_score,
     error |-> result.error, recommendation |-> result.recommendation,
     candidate_id |-> id]

\* x put into a list in descending order of match_score, behind the results
\* that compare equal to it (list.sort is stable, with reverse=True too).
InsertDesc(rs, x) ==
    LET lower == {i \in 1..Len(rs) : rs[i].match_score < x.match_score}
        at == IF lower = {} THEN Len(rs) + 1
              ELSE CHOOSE i \in lower : \A k \in lower : i <= k
    IN  SubSeq(rs, 1, at - 1) \o <<x>> \o SubSeq(rs, at, Len(rs))

\* A variant that returns the results in the order of the input.
KeepOrder(rs) == rs

\* results.sort(key=lambda x: x.get('match_score', 0), reverse=True)
RECURSIVE SortDesc(_)
SortDesc(rs) ==
    IF rs = <<>> THEN <<>>
    ELSE InsertDesc(SortDesc(SubSeq(rs, 1, Len(rs) - 1)), rs[Len(rs)])

\* The screening of candidate i of the list.
BatchResult(batch, i) ==
    screen_candidate(batch[i].exists, batch[i].run.setup, batch[i].run.kick,
                     batch[i].run.text)

\* screen_multiple_candidates(candidates, ...): an exception of a screening
\* is not caught here.
screen_multiple_candidates(batch) ==
    IF \E i \in 1..Len(batch) : BatchResult(batch, i).raised
    THEN [raised |-> TRUE, results |-> <<>>]
    ELSE [raised |-> FALSE,
          results |-> SortDesc([i \in 1..Len(batch) |->
                                  Tagged(BatchResult(batch, i), batch[i].id)])]

\* -------------------------------------------------------- skill_matcher.py
\* The skill names of the sample inputs, as written by the caller; a
\* requirement without a 'skill' key has the name "".
ReqSkillNames == {"Java ", "javascript", "sql", ""}
CandSkillNames == {"java", "script", "SQL", "go"}

\* s.lower().strip()
Normalise(name) ==
    IF name = "Java " THEN "java"
    ELSE IF name = "SQL" THEN "sql"
    ELSE name

\* `small in big` for the normalised sample names.
IsSubstring(small, big) ==
    \/ small = ""
    \/ small = big
    \/ <<small, big>> \in {<<"java", "javascript">>, <<"script", "javascript">>}

\* A requirement dict; 'required' is True when the key is absent.
Requirement(skill, required) == [skill |-> skill, required |-> required]

\* The inner loop: some candidate skill contains the skill or is contained in
\* it.
IsMatched(req, skills) ==
    \E cs \in skills :
        \/ IsSubstring(Normalise(req.skill), Normalise(cs))
        \/ IsSubstring(Normalise(cs), Normalise(req.skill))

\* One of the four lists: the skills of the requirements with the given
\* `required` and `is_matched`, in the order of the input.
SkillsOf(reqs, skills, required, matched) ==
    LET Goes(req) == req.required = required /\ IsMatched(req, skills) = matched
        sel == SelectSeq(reqs, Goes)
    IN  [i \in 1..Len(sel) |-> Normalise(sel[i].skill)]

\* A score as an exact fraction num / den of a percentage.  The code computes
\* it in floating point, which differs from the fraction by less than 1e-13
\* and stays within the same range.
Fraction(num, den) == [num |-> num, den |-> den]

\* A variant in which a category with no requirements scores 0.
PercentOfEmptyZero(matched, total) ==
    IF total > 0 THEN Fraction(matched * 100, total) ELSE Fraction(0, 1)

\* (len(matched) / total * 100) if total > 0 else 100
PercentOf(matched, total) ==
    IF total > 0 THEN Fraction(matched * 100, total) ELSE Fraction(100, 1)

\* required_score * 0.7 + optional_score * 0.3
Weighted(required_score, optional_score) ==
    Fraction(7 * required_score.num * optional_score.den
                + 3 * optional_score.num * required_score.den,
             10 * required_score.den * optional_score.den)

\* The values SkillMatcherTool._run computes and prints; `error` for the
\* "Error: No job requirements provided" answer.
SkillMatch(err, mr, xr, mo, xo, rs, os, overall) ==
    [error |-> err, matched_required |-> mr, missing_required |-> xr,
     matched_optional |-> mo, missing_optional |-> xo,
     required_score |-> rs, optional_score |-> os, overall_score |-> overall]

skill_matcher_run(reqs, skills) ==
    IF reqs = <<>>
    THEN SkillMatch(TRUE, <<>>, <<>>, <<>>, <<>>,
                    Fraction(0, 1), Fraction(0, 1), Fraction(0, 1))
    ELSE LET matched_required == SkillsOf(reqs, skills, TRUE, TRUE)
             missing_required == SkillsOf(reqs, skills, TRUE, FALSE)
             matched_optional == SkillsOf(reqs, skills, FALSE, TRUE)
             missing_optional == SkillsOf(reqs, skills, FALSE, FALSE)
             total_required == Len(matched_required) + Len(missing_required)
             total_optional == Len(matched_optional) + Len(missing_optional)
             required_score == PercentOf(Len(matched_required), total_required)
             optional_score == PercentOf(Len(matched_optional), total_optional)
         IN  SkillMatch(FALSE, matched_required, missing_required,
                        matched_optional, missing_optional,
                        required_score, optional_score,
                        Weighted(required_score, optional_score))

\* ------------------------------------------------------------ jobs.py
create_job ==
    /\ Step
    /\ job_ids < MaxJobs
    /\ job_ids' = job_ids + 1
    /\ jobs' = Extend(jobs, job_ids + 1, JobRow("draft"))
    /\ last' = Resp("create_job", 201, "-", 0)
    /\ UNCHANGED <<cands, files, cand_ids, apps, dels, tasks>>

publish_job(j) ==
    /\ Step
    /\ IF j \notin DOMAIN jobs
       THEN /\ last' = Resp("publish_job", 404, "job_not_found", 0)
            /\ UNCHANGED jobs
       ELSE /\ jobs' = [jobs EXCEPT ![j].status = "active"]
            /\ last' = Resp("publish_job", 200, "-", 0)
    /\ UNCHANGED <<cands, files, job_ids, cand_ids, apps, dels, tasks>>

update_job_status(j, new_status) ==
    /\ Step
    /\ IF j \notin DOMAIN jobs
       THEN /\ last' = Resp("update_job_status", 404, "job_not_found", 0)
            /\ UNCHANGED jobs
       ELSE /\ jobs' = [jobs EXCEPT ![j].status = new_status]
            /\ last' = Resp("update_job_status", 200, "-", 0)
    /\ UNCHANGED <<cands, files, job_ids, cand_ids, apps, dels, tasks>>

\* delete_job up to `await db.delete(job)`: the job is read and the delete
\* cascade loads job.candidates as they are stored now.
delete_job_begin(j) ==
    /\ Step
    /\ j \notin DOMAIN dels
    /\ IF j \notin DOMAIN jobs
       THEN /\ last' = Resp("delete_job", 404, "job_not_found", 0)
            /\ UNCHANGED dels
       ELSE /\ dels' = Extend(dels, j, CandsOf(cands, j))
            /\ last' = Resp("delete_job", 0, "begun", 0)
    /\ UNCHANGED <<jobs, cands, files, job_ids, cand_ids, apps, tasks>>

\* `await db.commit()` of delete_job: DELETE of the loaded candidates, then of
\* the job.  A row that is gone already matches nothing (a warning, no error).
delete_job_commit(j) ==
    /\ Step
    /\ j \in DOMAIN dels
    /\ cands' = Remove(cands, dels[j])
    /\ jobs' = Remove(jobs, {j})
    /\ dels' = Remove(dels, {j})
    /\ last' = Resp("delete_job", 204, "-", 0)
    /\ UNCHANGED <<files, job_ids, cand_ids, apps, tasks>>

\* ------------------------------------------------------------ apply.py
\* The checks of submit_application in their order: "ok" or the rejection.
SubmitCheck(j, email, ext, size) ==
    IF j \notin DOMAIN jobs THEN Resp("submit_application", 404, "job_not_found", 0)
    ELSE IF jobs[j].status # "active"
    THEN Resp("submit_application", 400, "not_accepting", 0)
    ELSE LET existing == {c \in CandsOf(cands, j) : cands[c].email = email}
         IN  IF Cardinality(existing) = 1
             THEN Resp("submit_application", 400, "already_applied", 0)
             ELSE IF Cardinality(existing) > 1    \* scalar_one_or_none() raises
             THEN Resp("submit_application", 500, "multiple_rows", 0)
             ELSE IF ext \notin AllowedExtensions
             THEN Resp("submit_application", 400, "invalid_file_type", 0)
             ELSE IF size > max_file_size_mb * 1024 * 1024
             THEN Resp("submit_application", 400, "file_too_large", 0)
             ELSE Resp("submit_application", 200, "ok", 0)

\* A variant that writes the upload to disk before it looks at its size.
ResumeSavedBeforeSizeCheck(check, fs, c) ==
    IF check.code = 200 \/ check.note = "file_too_large" THEN fs \cup {c} ELSE fs

\* The resume directory after the checks: the file is written (aiofiles.open,
\* f.write) only once every check has passed.
ResumeSaved(check, fs, c) == IF check.code = 200 THEN fs \cup {c} ELSE fs

\* submit_application up to `await db.commit()`: the checks, the candidate id,
\* the resume file, the pending candidate row and job.total_applicants += 1 on
\* the job as read.
submit_application_begin(j, email, ext, size) ==
    /\ Step
    /\ cand_ids < MaxCandidates
    /\ LET check == SubmitCheck(j, email, ext, size)
           c == cand_ids + 1
       IN  IF check.code # 200
           THEN /\ last' = check
                /\ files' = ResumeSaved(check, files, c)
                /\ UNCHANGED <<cand_ids, apps>>
           ELSE /\ cand_ids' = c
                /\ files' = ResumeSaved(check, files, c)
                /\ apps' = Extend(apps, c,
                                  [job_id |-> j, email |-> email,
                                   total_applicants |-> jobs[j].total_applicants + 1])
                /\ last' = Resp("submit_application", 0, "begun", c)
    /\ UNCHANGED <<jobs, cands, job_ids, dels, tasks>>

\* `await db.commit()` of submit_application: UPDATE jobs, INSERT candidates.
\* The UPDATE of a job row that is gone matches no row: StaleDataError, the
\* session is rolled back by get_db and nothing is stored.
submit_application_commit(c) ==
    /\ Step
    /\ c \in DOMAIN apps
    /\ LET a == apps[c]
       IN  IF a.job_id \notin DOMAIN jobs
           THEN /\ last' = Resp("submit_application", 500, "stale_job", c)
                /\ UNCHANGED <<jobs, cands>>
           ELSE /\ jobs' = [jobs EXCEPT ![a.job_id].total_applicants = a.total_applicants]
                /\ cands' = Extend(cands, c,
                                   CandidateRow(a.job_id, a.email, NextRowid(cands)))
                /\ last' = Resp("submit_application", 200, "applied", c)
    /\ apps' = Remove(apps, {c})
    /\ UNCHANGED <<files, job_ids, cand_ids, dels, tasks>>

\* ------------------------------------------------------------ screening.py
\* A variant with a guard: candidates handed to a task that has not screened
\* them yet are not handed out again.
UnscreenedUnclaimed(j) ==
    {c \in CandsOf(cands, j) :
        /\ cands[c].status = "applied"
        /\ cands[c].match_score = None
        /\ \A t \in DOMAIN tasks : c \notin tasks[t].todo}

\* The candidates the query of screen_candidates returns before its limit:
\* status "applied", no match score.
Unscreened(j) ==
    {c \in CandsOf(cands, j) :
        cands[c].status = "applied" /\ cands[c].match_score = None}

\* query.limit(limit): the first `limit` rows.  The query has no ORDER BY and
\* the table no index it could use: SQLite scans the table in rowid order.
Limited(cs, limit) ==
    IF limit = 0 THEN cs
    ELSE {c \in cs :
            Cardinality({d \in cs : cands[d].rowid < cands[c].rowid}) < limit}

FreeTask == CHOOSE t \in TaskIds \ DOMAIN tasks : \A u \in TaskIds \ DOMAIN tasks : t <= u

\* A variant of the handler that marks the candidates it hands to the task.
screen_candidates_marking(j, limit) ==
    /\ Step
    /\ TaskIds \ DOMAIN tasks # {}
    /\ IF j \notin DOMAIN jobs
       THEN /\ last' = Resp("screen_candidates", 404, "job_not_found", 0)
            /\ UNCHANGED <<tasks, cands>>
       ELSE IF Unscreened(j) = {}
       THEN /\ last' = Resp("screen_candidates", 200, "none_found", 0)
            /\ UNCHANGED <<tasks, cands>>
       ELSE LET picked == Limited(Unscreened(j), limit)
            IN  /\ tasks' = Extend(tasks, FreeTask, [job_id |-> j, todo |-> picked])
                /\ cands' = [c \in DOMAIN cands |->
                                IF c \in picked
                                THEN [cands[c] EXCEPT !.status = "screening"]
                                ELSE cands[c]]
                /\ last' = Resp("screen_candidates", 200, "processing", 0)
    /\ UNCHANGED <<jobs, files, job_ids, cand_ids, apps, dels>>

\* POST /job/{job_id}/screen: the handler up to its return; the task it adds
\* runs after the response is sent.
screen_candidates(j, limit) ==
    /\ Step
    /\ TaskIds \ DOMAIN tasks # {}
    /\ IF j \notin DOMAIN jobs
       THEN /\ last' = Resp("screen_candidates", 404, "job_not_found", 0)
            /\ UNCHANGED <<tasks, cands>>
       ELSE IF Unscreened(j) = {}
       THEN /\ last' = Resp("screen_candidates", 200, "none_found", 0)
            /\ UNCHANGED <<tasks, cands>>
       ELSE LET picked == Limited(Unscreened(j), limit)
            IN  /\ tasks' = Extend(tasks, FreeTask, [job_id |-> j, todo |-> picked])
                /\ UNCHANGED cands
                /\ last' = Resp("screen_candidates", 200, "processing", 0)
    /\ UNCHANGED <<jobs, files, job_ids, cand_ids, apps, dels>>

\* A variant in which a 'no hire' recommendation rejects whatever the score.
ScreeningUpdateByRecommendation(row, result) ==
    [row EXCEPT !.match_score = Some(result.match_score),
                !.status = IF result.recommendation \in {"no_hire", "strong_no_hire"}
                           THEN "rejected"
                           ELSE StatusForScore(result.match_score)]

\* "Update candidate with results" of run_screening_task and of
\* rescreen_candidate: the score of the result and the status it decides.
ScreeningUpdate(row, result) ==
    [row EXCEPT !.match_score = Some(result.match_score),
                !.status = StatusForScore(result.match_score)]

\* One turn of the loop of run_screening_task, for candidate c of the list: the
\* screening, the update of the row if it is still stored, the commit.  An
\* exception of the screening is caught by the loop (`continue`).
run_screening_task_step(t, c, run) ==
    /\ Step
    /\ t \in DOMAIN tasks
    /\ c \in tasks[t].todo
    /\ LET result == screen_candidate(c \in files, run.setup, run.kick, run.text)
       IN  IF result.raised
           THEN /\ last' = Resp("run_screening_task", 0, "raised", c)
                /\ UNCHANGED cands
           ELSE IF c \notin DOMAIN cands
           THEN /\ last' = Resp("run_screening_task", 0, "gone", c)
                /\ UNCHANGED cands
           ELSE /\ cands' = [cands EXCEPT ![c] = ScreeningUpdate(@, result)]
                /\ last' = Resp("run_screening_task", 0, result.status, c)
    /\ tasks' = [tasks EXCEPT ![t].todo = @ \ {c}]
    /\ UNCHANGED <<jobs, files, job_ids, cand_ids, apps, dels>>

\* "Update job counts" at the end of run_screening_task.
run_screening_task_finish(t) ==
    /\ Step
    /\ t \in DOMAIN tasks
    /\ tasks[t].todo = {}
    /\ LET j == tasks[t].job_id
       IN  jobs' = IF j \notin DOMAIN jobs THEN jobs
                   ELSE [jobs EXCEPT
                            ![j].screened_count = Cardinality(ScreenedOf(cands, j)),
                            ![j].shortlisted_count = Cardinality(ShortlistedOf(cands, j))]
    /\ tasks' = Remove(tasks, {t})
    /\ last' = Resp("run_screening_task", 0, "finished", 0)
    /\ UNCHANGED <<cands, files, job_ids, cand_ids, apps, dels>>

\* candidate.match_details of rescreen_candidate: the recommendation of the
\* result, 'review' when the result has none.
MatchDetails(row, result) ==
    [row EXCEPT !.recommendation =
        Some(IF result.recommendation = "-" THEN "review" ELSE result.recommendation)]

\* POST /candidate/{candidate_id}/rescreen.  A resume file that is missing is
\* no failure here: ResumeParserTool returns an error text, which is screened.
\* An exception of the screening is caught by the handler, which answers with
\* a "failed" message and has written nothing.
rescreen_candidate(c, run) ==
    /\ Step
    /\ IF c \notin DOMAIN cands
       THEN /\ last' = Resp("rescreen_candidate", 404, "candidate_not_found", c)
            /\ UNCHANGED cands
       ELSE IF cands[c].job_id \notin DOMAIN jobs
       THEN /\ last' = Resp("rescreen_candidate", 404, "job_not_found", c)
            /\ UNCHANGED cands
       ELSE LET result == quick_screen_candidate(run.setup, run.kick, run.text)
            IN  IF result.raised
                THEN /\ last' = Resp("rescreen_candidate", 200, "raised", c)
                     /\ UNCHANGED cands
                ELSE /\ cands' = [cands EXCEPT ![c] = MatchDetails(ScreeningUpdate(@, result), result)]
                     /\ last' = Resp("rescreen_candidate", 200, result.status, c)
    /\ UNCHANGED <<jobs, files, job_ids, cand_ids, apps, dels, tasks>>

\* ------------------------------------------------------------ candidates.py
\* A handler that changes candidate c to `row` (or deletes it: row = None),
\* calls recalculate_job_counts and commits.
CommitWithCounts(c, row) ==
    LET pending == IF row = None THEN Remove(cands, {c})
                   ELSE [cands EXCEPT ![c] = Val(row)]
    IN  /\ jobs' = recalculate_job_counts(jobs, QueryView(cands, pending), cands[c].job_id)
        /\ cands' = pending

\* PUT /{candidate_id}
update_candidate(c, st, score) ==
    /\ Step
    /\ IF c \notin DOMAIN cands
       THEN /\ last' = Resp("update_candidate", 404, "candidate_not_found", c)
            /\ UNCHANGED <<jobs, cands>>
       ELSE /\ CommitWithCounts(c, Some(
                   [cands[c] EXCEPT
                       !.status = IF st = None THEN @ ELSE Val(st),
                       !.match_score = IF score = None THEN @ ELSE score]))
            /\ last' = Resp("update_candidate", 200, "-", c)
    /\ UNCHANGED <<files, job_ids, cand_ids, apps, dels, tasks>>

\* PATCH /{candidate_id}/status with a status in the body
update_candidate_status(c, new_status) ==
    /\ Step
    /\ IF c \notin DOMAIN cands
       THEN /\ last' = Resp("update_candidate_status", 404, "candidate_not_found", c)
            /\ UNCHANGED <<jobs, cands>>
       ELSE /\ CommitWithCounts(c, Some([cands[c] EXCEPT !.status = new_status]))
            /\ last' = Resp("update_candidate_status", 200, "-", c)
    /\ UNCHANGED <<files, job_ids, cand_ids, apps, dels, tasks>>

\* POST /{candidate_id}/shortlist
shortlist_candidate(c) ==
    /\ Step
    /\ IF c \notin DOMAIN cands
       THEN /\ last' = Resp("shortlist_candidate", 404, "candidate_not_found", c)
            /\ UNCHANGED <<jobs, cands>>
       ELSE /\ CommitWithCounts(c, Some([cands[c] EXCEPT !.status = "shortlisted"]))
            /\ last' = Resp("shortlist_candidate", 200, "-", c)
    /\ UNCHANGED <<files, job_ids, cand_ids, apps, dels, tasks>>

\* POST /{candidate_id}/reject
reject_candidate(c) ==
    /\ Step
    /\ IF c \notin DOMAIN cands
       THEN /\ last' = Resp("reject_candidate", 404, "candidate_not_found", c)
            /\ UNCHANGED <<jobs, cands>>
       ELSE /\ CommitWithCounts(c, Some([cands[c] EXCEPT !.status = "rejected"]))
            /\ last' = Resp("reject_candidate", 200, "-", c)
    /\ UNCHANGED <<files, job_ids, cand_ids, apps, dels, tasks>>

\* DELETE /{candidate_id}
delete_candidate(c) ==
    /\ Step
    /\ IF c \notin DOMAIN cands
       THEN /\ last' = Resp("delete_candidate", 404, "candidate_not_found", c)
            /\ UNCHANGED <<jobs, cands, files>>
       ELSE /\ files' = files \ {c}
            /\ CommitWithCounts(c, None)
            /\ last' = Resp("delete_candidate", 204, "-", c)
    /\ UNCHANGED <<job_ids, cand_ids, apps, dels, tasks>>

\* POST /{candidate_id}/send-interview-invite
send_interview_invitation(c, email_result) ==
    /\ Step
    /\ IF c \notin DOMAIN cands
       THEN /\ last' = Resp("send_interview_invitation", 404, "candidate_not_found", c)
            /\ UNCHANGED cands
       ELSE IF cands[c].job_id \notin DOMAIN jobs
       THEN /\ last' = Resp("send_interview_invitation", 404, "job_not_found", c)
            /\ UNCHANGED cands
       ELSE IF email_result \in {"success", "preview"}
       THEN /\ cands' = [cands EXCEPT ![c].status = "interview_scheduled"]
            /\ last' = Resp("send_interview_invitation", 200, email_result, c)
       ELSE /\ last' = Resp("send_interview_invitation", 500, "email_failed", c)
            /\ UNCHANGED cands
    /\ UNCHANGED <<jobs, files, job_ids, cand_ids, apps, dels, tasks>>

\* ---------------------------------------------------------- specifications
NoOut == [fn |-> "-", result |-> Raised]

CrewIdle ==
    /\ in_text = <<>>
    /\ in_batch = <<>>
    /\ in_reqs = <<>>
    /\ in_skills = {}
    /\ in_exists = TRUE
    /\ in_setup = "ok"
    /\ in_kick = "ok"
    /\ out = NoOut

\* The service after start-up (init_db): empty tables, nothing in flight.
ApiIdle ==
    /\ jobs = <<>>
    /\ cands = <<>>
    /\ files = {}
    /\ job_ids = 0
    /\ cand_ids = 0
    /\ apps = <<>>
    /\ dels = <<>>
    /\ tasks = <<>>
    /\ last = Resp("-", 0, "-", 0)

Init == ApiIdle /\ CrewIdle /\ steps = MaxSteps

\* Ids are generated values (uuid4): a request names an id that was generated
\* before, whether its row is stored, not yet stored or deleted.
KnownJobs == 1..job_ids
KnownCands == 1..cand_ids

Next ==
    \/ create_job
    \/ \E j \in KnownJobs : publish_job(j)
    \/ \E j \in KnownJobs, s \in JobStatusInputs : update_job_status(j, s)
    \/ \E j \in KnownJobs : delete_job_begin(j)
    \/ \E j \in KnownJobs : delete_job_commit(j)
    \/ \E j \in KnownJobs, e \in Emails, x \in FileExts, z \in FileSizes :
          submit_application_begin(j, e, x, z)
    \/ \E c \in KnownCands : submit_application_commit(c)
    \/ \E j \in KnownJobs, l \in Limits : screen_candidates(j, l)
    \/ \E t \in TaskIds, c \in KnownCands, r \in Runs :
          run_screening_task_step(t, c, r)
    \/ \E t \in TaskIds : run_screening_task_finish(t)
    \/ \E c \in KnownCands, r \in Runs : rescreen_candidate(c, r)
    \/ \E c \in KnownCands, st \in {None} \cup {Some(x) : x \in PutStatuses},
          sc \in {None} \cup {Some(x) : x \in PutScores} :
          update_candidate(c, st, sc)
    \/ \E c \in KnownCands, s \in PatchStatuses : update_candidate_status(c, s)
    \/ \E c \in KnownCands : shortlist_candidate(c)
    \/ \E c \in KnownCands : reject_candidate(c)
    \/ \E c \in KnownCands : delete_candidate(c)
    \/ \E c \in KnownCands, r \in EmailResults : send_interview_invitation(c, r)

Spec == Init /\ [][Next]_vars

\* ---- the pipeline on its own: jobs, applications, the screening triggers and
\* their background tasks, with the recruiter's shortlisting and deleting; a
\* longer run than Spec's.
InitPipeline == ApiIdle /\ CrewIdle /\ steps = MaxPipelineSteps

NextPipeline ==
    \/ create_job
    \/ \E j \in KnownJobs : publish_job(j)
    \/ \E j \in KnownJobs, e \in Emails, x \in FileExts, z \in FileSizes :
          submit_application_begin(j, e, x, z)
    \/ \E c \in KnownCands : submit_application_commit(c)
    \/ \E j \in KnownJobs, l \in Limits : screen_candidates(j, l)
    \/ \E t \in TaskIds, c \in KnownCands, r \in Runs :
          run_screening_task_step(t, c, r)
    \/ \E t \in TaskIds : run_screening_task_finish(t)
    \/ \E c \in KnownCands : shortlist_candidate(c)
    \/ \E c \in KnownCands : delete_candidate(c)

SpecPipeline == InitPipeline /\ [][NextPipeline]_vars

\* ---- extract_score_from_result and extract_recommendation on their own
InitExtract ==
    /\ ApiIdle
    /\ steps = 0
    /\ in_batch = <<>>
    /\ in_reqs = <<>>
    /\ in_skills = {}
    /\ in_text \in Texts
    /\ in_exists = TRUE
    /\ in_setup = "ok"
    /\ in_kick = "ok"
    /\ out = NoOut

DoExtract ==
    /\ out = NoOut
    /\ out' = [fn |-> "extract",
               result |-> Payload("-", extract_score_from_result(in_text), FALSE,
                                  extract_recommendation(in_text))]
    /\ UNCHANGED <<in_text, in_exists, in_setup, in_kick, in_batch, in_reqs, in_skills>>
    /\ UNCHANGED apiVars

\* The recommendation phrases of the sample outputs, "-" for none.
Recommendations == {"-", "hire", "strong hire", "no hire"}

\* The output with a recommendation phrase written at its end.
WithRecommendation(t, phrase) ==
    IF phrase = "-" THEN t ELSE Append(t, Tok(phrase))

\* extract_score_from_result on an output that says nothing about hiring, and
\* on the same output ending in each recommendation phrase.
DoExtractVariants ==
    /\ out = NoOut
    /\ ~Has(in_text, WithHire \cup WithReject \cup WithMaybe)
    /\ out' = [fn |-> "extract_variants",
               result |-> [p \in Recommendations |->
                             extract_score_from_result(WithRecommendation(in_text, p))]]
    /\ UNCHANGED <<in_text, in_exists, in_setup, in_kick, in_batch, in_reqs, in_skills>>
    /\ UNCHANGED apiVars

NextExtract == DoExtract

SpecExtract == InitExtract /\ [][NextExtract]_vars

\* ---- the keyword fallback of extract_score_from_result on its own
FallbackTexts == UNION {TextsOfLen(n) : n \in 0..MaxFallbackTextLen}

InitFallback ==
    /\ ApiIdle
    /\ steps = 0
    /\ in_batch = <<>>
    /\ in_reqs = <<>>
    /\ in_skills = {}
    /\ in_text \in FallbackTexts
    /\ in_exists = TRUE
    /\ in_setup = "ok"
    /\ in_kick = "ok"
    /\ out = NoOut

NextFallback == DoExtract \/ DoExtractVariants

SpecFallback == InitFallback /\ [][NextFallback]_vars

\* ---- screen_candidate and quick_screen_candidate on their own
ScreenTexts == UNION {TextsOfLen(n) : n \in 0..MaxScreenTextLen}

\* There is an agent output only if the crew was built and ran to its end.
InitScreen ==
    /\ ApiIdle
    /\ steps = 0
    /\ in_batch = <<>>
    /\ in_reqs = <<>>
    /\ in_skills = {}
    /\ in_exists \in BOOLEAN
    /\ in_setup \in {"ok", "raise"}
    /\ in_kick \in {"ok"} \cup ScreenSteps
    /\ IF in_exists /\ in_setup = "ok" /\ in_kick = "ok"
       THEN in_text \in ScreenTexts
       ELSE in_text = <<>>
    /\ out = NoOut

DoScreen ==
    /\ out = NoOut
    /\ out' = [fn |-> "screen_candidate",
               result |-> screen_candidate(in_exists, in_setup, in_kick, in_text)]
    /\ UNCHANGED <<in_text, in_exists, in_setup, in_kick, in_batch, in_reqs, in_skills>>
    /\ UNCHANGED apiVars

\* quick_screen_candidate is given the resume text, not its path.
DoQuickScreen ==
    /\ out = NoOut
    /\ in_kick \in {"ok"} \cup QuickSteps
    /\ out' = [fn |-> "quick_screen_candidate",
               result |-> quick_screen_candidate(in_setup, in_kick, in_text)]
    /\ UNCHANGED <<in_text, in_exists, in_setup, in_kick, in_batch, in_reqs, in_skills>>
    /\ UNCHANGED apiVars

NextScreen == DoScreen \/ DoQuickScreen

SpecScreen == InitScreen /\ [][NextScreen]_vars

\* ---- screen_multiple_candidates on its own
BatchOutcomes == {BatchCandidate(0, e, r) : e \in BOOLEAN, r \in Runs}

\* The lists of up to MaxBatch candidates; the id of a candidate is its place
\* in the list.
Batches ==
    UNION {{[i \in 1..n |-> BatchCandidate(i, f[i].exists, f[i].run)] :
               f \in [1..n -> BatchOutcomes]} : n \in 0..MaxBatch}

InitMultiple ==
    /\ ApiIdle
    /\ steps = 0
    /\ in_text = <<>>
    /\ in_exists = TRUE
    /\ in_setup = "ok"
    /\ in_kick = "ok"
    /\ in_batch \in Batches
    /\ in_reqs = <<>>
    /\ in_skills = {}
    /\ out = NoOut

DoScreenMultiple ==
    /\ out = NoOut
    /\ out' = [fn |-> "screen_multiple_candidates",
               result |-> screen_multiple_candidates(in_batch)]
    /\ UNCHANGED <<in_text, in_exists, in_setup, in_kick, in_batch, in_reqs, in_skills>>
    /\ UNCHANGED apiVars

NextMultiple == DoScreenMultiple

SpecMultiple == InitMultiple /\ [][NextMultiple]_vars

\* ---- SkillMatcherTool on its own
Requirements == {Requirement(n, r) : n \in ReqSkillNames, r \in BOOLEAN}

RequirementLists == UNION {[1..n -> Requirements] : n \in 0..MaxReqs}

InitSkill ==
    /\ ApiIdle
    /\ steps = 0
    /\ in_text = <<>>
    /\ in_exists = TRUE
    /\ in_setup = "ok"
    /\ in_kick = "ok"
    /\ in_batch = <<>>
    /\ in_reqs \in RequirementLists
    /\ in_skills \in SUBSET CandSkillNames
    /\ out = NoOut

DoSkillMatch ==
    /\ out = NoOut
    /\ out' = [fn |-> "skill_matcher",
               result |-> skill_matcher_run(in_reqs, in_skills)]
    /\ UNCHANGED <<in_text, in_exists, in_setup, in_kick, in_batch, in_reqs, in_skills>>
    /\ UNCHANGED apiVars

NextSkill == DoSkillMatch

SpecSkill == InitSkill /\ [][NextSkill]_vars

\* -------------------------------------------------------------- properties
ScreeningOps == {"run_screening_task", "rescreen_candidate"}
CountingOps ==
    {"update_candidate", "update_candidate_status", "shortlist_candidate",
     "reject_candidate", "delete_candidate"}
SubmitRejections ==
    {"job_not_found", "not_accepting", "already_applied", "invalid_file_type",
     "file_too_large"}

\* C1 (SpecExtract): for every agent output, extract_score_from_result returns
\* an integer from 0 to 100, whichever branch produces it: the MATCH_SCORE
\* pattern, a secondary pattern or the keyword fallback.
C1_ScoreInRange ==
    out.fn = "extract" => out.result.match_score \in 0..100

\* C1, its case: a MATCH_SCORE number out of range was captured and turned
\* down, and the score came from the keyword fallback.
C1_Witness ==
    /\ out.fn = "extract"
    /\ Search(PatMatchScore, in_text) = 101
    /\ ExtractBranch(in_text) = "keywords"
    /\ out.result.match_score = 70

\* C2: the stored match_score of every candidate is unset or from 0 to 100,
\* after any sequence of operations (the PUT of update_candidate among them).
C2_StoredScoreInRange ==
    \A c \in DOMAIN cands :
        cands[c].match_score = None \/ Val(cands[c].match_score) \in 0..100

\* C3: whenever run_screening_task or rescreen_candidate commits a screening
\* result for a candidate, the committed status is "shortlisted" exactly when
\* the committed match_score is at least settings.min_match_score, and
\* "rejected" otherwise.
C3_StatusFollowsScore ==
    [][(last'.op \in ScreeningOps /\ last'.note \in {"completed", "failed"}) =>
          LET row == cands'[last'.cand]
          IN  /\ row.match_score # None
              /\ row.status \in {"shortlisted", "rejected"}
              /\ row.status = "shortlisted" <=> Val(row.match_score) >= min_match_score]_vars

\* C3, its case: the background task has committed a score equal to the
\* threshold and the candidate is shortlisted.
C3_Witness ==
    /\ last.op = "run_screening_task"
    /\ last.note = "completed"
    /\ last.cand \in DOMAIN cands
    /\ cands[last.cand].match_score = Some(min_match_score)
    /\ cands[last.cand].status = "shortlisted"

\* C4: the status of every candidate is one of the CandidateStatus values
\* (applied, screening, shortlisted, interview, offered, hired, rejected,
\* withdrawn).
C4_StatusInEnum ==
    \A c \in DOMAIN cands : cands[c].status \in CandidateStatus

\* C5: the job_id of every candidate identifies an existing job, also when an
\* application is in flight while the job is deleted.
C5_JobExists ==
    \A c \in DOMAIN cands : cands[c].job_id \in DOMAIN jobs

\* C6: the handler of screen_candidates changes no candidate and no job
\* record; it answers "processing" after it has added the task, and the scores
\* and statuses of the candidates it picked are still to be written by
\* run_screening_task.
C6_HandlerWritesNothing ==
    [][last'.op = "screen_candidates" =>
          /\ cands' = cands
          /\ jobs' = jobs
          /\ last'.note = "processing" <=>
                \E t \in DOMAIN tasks' \ DOMAIN tasks :
                    /\ tasks'[t].todo # {}
                    /\ \A c \in tasks'[t].todo :
                          /\ cands'[c].status = "applied"
                          /\ cands'[c].match_score = None]_vars

\* C6, its case: the handler has answered "processing", its task holds a
\* candidate, and that candidate is stored as it was.
C6_Witness ==
    /\ last.op = "screen_candidates"
    /\ last.note = "processing"
    /\ \E t \in DOMAIN tasks : \E c \in tasks[t].todo :
          /\ c \in DOMAIN cands
          /\ cands[c].status = "applied"
          /\ cands[c].match_score = None

C8_FailurePayload ==
    /\ (out.fn = "screen_candidate"
           /\ (~in_exists \/ (in_setup = "ok" /\ in_kick # "ok"))) =>
          /\ ~out.result.raised
          /\ out.result.status = "failed"
          /\ out.result.error
          /\ out.result.match_score = 0
    /\ (out.fn = "quick_screen_candidate" /\ in_setup = "ok" /\ in_kick # "ok") =>
          /\ ~out.result.raised
          /\ out.result.status = "failed"
          /\ out.result.error
          /\ out.result.match_score = 50

\* C8, its case: the resume exists, the crew was built, and its second task
\* raised during kickoff; screen_candidate has returned.
C8_Witness ==
    /\ out.fn = "screen_candidate"
    /\ in_exists
    /\ in_setup = "ok"
    /\ in_kick = "match"
    /\ out.result.status = "failed"

\* C9: after update_candidate, update_candidate_status, shortlist_candidate,
\* reject_candidate or delete_candidate commits, total_applicants,
\* screened_count and shortlisted_count of the candidate's job equal the
\* counts of the committed candidate records, the change of that request
\* included.
C9_CountsIncludeOwnChange ==
    [][(last'.op \in CountingOps /\ last'.code \in {200, 204}) =>
          LET j == cands[last'.cand].job_id
          IN  j \in DOMAIN jobs' =>
                 /\ jobs'[j].total_applicants = Cardinality(CandsOf(cands', j))
                 /\ jobs'[j].screened_count = Cardinality(ScreenedOf(cands', j))
                 /\ jobs'[j].shortlisted_count = Cardinality(ShortlistedOf(cands', j))]_vars

\* C10: a submit_application that is turned down (job not found, job not
\* active, duplicate email, bad file extension, file too large) leaves the
\* state as it was: no candidate is stored or pending, no resume file is
\* written, and total_applicants is not changed.
C10_RejectedSubmitChangesNothing ==
    [][(last'.op = "submit_application" /\ last'.note \in SubmitRejections) =>
          /\ cands' = cands
          /\ jobs' = jobs
          /\ files' = files
          /\ apps' = apps
          /\ cand_ids' = cand_ids]_vars

\* C10, its case: an upload over the size limit for an active job has been
\* turned down; every earlier check had passed.
C10_Witness ==
    /\ last.op = "submit_application"
    /\ last.note = "file_too_large"
    /\ last.code = 400

\* C11: a successful submit_application stores exactly one new candidate for
\* the job, with status "applied" and no match score, makes the job's
\* total_applicants one more than it was, and changes no other candidate and
\* no other job.
C11_SubmitAddsOne ==
    [][(last'.op = "submit_application" /\ last'.note = "applied") =>
          LET c == last'.cand
              j == cands'[c].job_id
          IN  /\ c \notin DOMAIN cands
              /\ DOMAIN cands' = DOMAIN cands \cup {c}
              /\ cands'[c].status = "applied"
              /\ cands'[c].match_score = None
              /\ \A d \in DOMAIN cands : cands'[d] = cands[d]
              /\ DOMAIN jobs' = DOMAIN jobs
              /\ jobs'[j].total_applicants = jobs[j].total_applicants + 1
              /\ \A k \in DOMAIN jobs \ {j} : jobs'[k] = jobs[k]]_vars

\* C12: there is at most one candidate record for a job and an email, also
\* when two applications with the same job and email are in flight at once.
C12_OnePerJobAndEmail ==
    \A c \in DOMAIN cands, d \in DOMAIN cands :
        (cands[c].job_id = cands[d].job_id /\ cands[c].email = cands[d].email)
            => c = d

\* C13 (SpecMultiple): screen_multiple_candidates, when it returns, returns one
\* result for each candidate of the list, tagged with the candidate's id and
\* carrying the score and status of that candidate's screening (a failed
\* screening with its default score 0), in descending order of match_score.
C13_OnePerCandidateSorted ==
    (out.fn = "screen_multiple_candidates" /\ ~out.result.raised) =>
        LET rs == out.result.results
        IN  /\ Len(rs) = Len(in_batch)
            /\ \A i \in 1..Len(in_batch) :
                  \E k \in 1..Len(rs) :
                      /\ rs[k].candidate_id = in_batch[i].id
                      /\ \A m \in 1..Len(rs) : rs[m].candidate_id = in_batch[i].id => m = k
                      /\ rs[k].status =
                            IF in_batch[i].exists /\ in_batch[i].run.kick = "ok"
                            THEN "completed" ELSE "failed"
                      /\ rs[k].status = "failed" => rs[k].match_score = 0
                      /\ rs[k].status = "completed" =>
                            rs[k].match_score = extract_score_from_result(in_batch[i].run.text)
            /\ \A k \in 1..(Len(rs) - 1) : rs[k].match_score >= rs[k + 1].match_score

\* C13, its case: a list whose first candidate failed and whose second scored
\* 60; the failed one is returned behind it.
C13_Witness ==
    /\ out.fn = "screen_multiple_candidates"
    /\ ~out.result.raised
    /\ Len(in_batch) >= 2
    /\ ~in_batch[1].exists
    /\ out.result.results[1].candidate_id = 2
    /\ out.result.results[1].match_score = 60
    /\ \E k \in 2..Len(in_batch) :
          /\ out.result.results[k].candidate_id = 1
          /\ out.result.results[k].status = "failed"
          /\ out.result.results[k].match_score = 0

\* C14: a screening that failed (resume file missing, or the agent call
\* raised inside the crew) leaves the candidate's match score and status as
\* they were, in run_screening_task and in rescreen_candidate.
C14_FailedScreeningWritesNothing ==
    [][(/\ last'.op \in ScreeningOps
        /\ last'.note = "failed"
        /\ last'.cand \in DOMAIN cands) =>
            /\ cands'[last'.cand].match_score = cands[last'.cand].match_score
            /\ cands'[last'.cand].status = cands[last'.cand].status]_vars

\* C15: when a recruiter has changed the status of a candidate after the
\* screening was triggered and before the task reaches the candidate (the
\* candidate has left 'applied' and has no match score yet), the turn of
\* run_screening_task for that candidate leaves the status as the recruiter
\* set it.
C15_TaskKeepsRecruiterDecision ==
    [][(/\ last'.op = "run_screening_task"
        /\ last'.cand \in DOMAIN cands
        /\ cands[last'.cand].status # "applied"
        /\ cands[last'.cand].match_score = None) =>
            cands'[last'.cand].status = cands[last'.cand].status]_vars

\* C16: once the applications for a job have been handled (none is in flight,
\* and no candidate and no job has been deleted), the job's total_applicants is
\* the number of candidate records of the job, also when applications were
\* handled at the same time.
C16_TotalIsNumberOfCandidates ==
    (apps = <<>> /\ dels = <<>> /\ DOMAIN cands = 1..cand_ids) =>
        \A j \in DOMAIN jobs :
            jobs[j].total_applicants = Cardinality(CandsOf(cands, j))

\* C17: when no request and no background task is in flight, each job's
\* screened_count is the number of its candidates that have a match score and
\* its shortlisted_count the number of its candidates with status
\* 'shortlisted'.
C17_CountsMatchWhenIdle ==
    (apps = <<>> /\ dels = <<>> /\ tasks = <<>>) =>
        \A j \in DOMAIN jobs :
            /\ jobs[j].screened_count = Cardinality(ScreenedOf(cands, j))
            /\ jobs[j].shortlisted_count = Cardinality(ShortlistedOf(cands, j))

\* The results a screening can hand to the handlers.
ScreeningResults ==
    {p \in {screen_candidate(e, r.setup, r.kick, r.text) : e \in BOOLEAN, r \in Runs}
            \cup {quick_screen_candidate(r.setup, r.kick, r.text) : r \in Runs} :
        ~p.raised}

\* C18: the status that run_screening_task and rescreen_candidate set depends
\* on the match score alone: any other screening result with the same match
\* score, whatever its recommendation, would have given the candidate the
\* status that was set.
C18_StatusIgnoresRecommendation ==
    [][(/\ last'.op \in ScreeningOps
        /\ last'.note \in {"completed", "failed"}
        /\ last'.cand \in DOMAIN cands) =>
            \A p \in ScreeningResults :
                p.match_score = Val(cands'[last'.cand].match_score) =>
                    ScreeningUpdate(cands[last'.cand], p).status = cands'[last'.cand].status]_vars

\* C18, its case: a re-screening whose result scored 60 and recommended
\* 'no_hire' has shortlisted the candidate, as a 'hire' with 60 does.
C18_Witness ==
    /\ last.op = "rescreen_candidate"
    /\ last.note = "completed"
    /\ last.cand \in DOMAIN cands
    /\ cands[last.cand].recommendation = Some("no_hire")
    /\ cands[last.cand].match_score = Some(60)
    /\ cands[last.cand].status = "shortlisted"
    /\ \E p \in ScreeningResults : p.match_score = 60 /\ p.recommendation = "hire"

\* C19 (SpecExtract): when the first MATCH_SCORE of the output is followed,
\* after spaces and colons only, by a number from 0 to 100,
\* extract_score_from_result returns that number, whatever else the output
\* holds.
C19_FirstMatchScoreWins ==
    out.fn = "extract" =>
        \A i \in 1..Len(in_text), j \in 1..Len(in_text) :
            (/\ in_text[i].k = "match_score"
             /\ \A k \in 1..(i - 1) : in_text[k].k # "match_score"
             /\ i < j
             /\ \A k \in (i + 1)..(j - 1) : in_text[k].k \in {"sp", "colon"}
             /\ in_text[j].k = "num"
             /\ in_text[j].v \in 0..100) =>
                out.result.match_score = in_text[j].v

\* C19, its case: "0 % MATCH_SCORE 85", where the percentage pattern alone
\* would read 0.
C19_Witness ==
    /\ out.fn = "extract"
    /\ in_text = <<Num(0), Tok("pct"), Tok("match_score"), Num(85)>>
    /\ SecondaryScore(in_text) = 0
    /\ out.result.match_score = 85

\* C20 (SpecFallback): when no pattern gives a usable number, the score is
\* within 25..90; without a recommendation phrase it is the base 45, 55 or 70
\* that the counts of match and miss keywords choose, and for the same output
\* the scores with 'strong hire', 'hire', no phrase and 'no hire' are in
\* descending order.
C20_KeywordFallback ==
    /\ (out.fn = "extract" /\ ExtractBranch(in_text) = "keywords") =>
            out.result.match_score \in 25..90
    /\ (out.fn = "extract_variants" /\ ExtractBranch(in_text) = "keywords") =>
            LET matches == Cardinality({i \in 1..Len(in_text) : in_text[i].k = "meets"})
                misses == Cardinality({i \in 1..Len(in_text) : in_text[i].k = "missing"})
                r == out.result
            IN  /\ r["-"] = IF misses > matches THEN 45
                            ELSE IF matches > 2 * misses THEN 70
                            ELSE 55
                /\ \A p \in DOMAIN r : r[p] \in 25..90
                /\ r["strong hire"] >= r["hire"]
                /\ r["hire"] >= r["-"]
                /\ r["-"] >= r["no hire"]

\* C20, its case: an output with more miss than match keywords: base 45, 65
\* with 'strong hire', 55 with 'hire', 25 with 'no hire'.
C20_Witness ==
    /\ out.fn = "extract_variants"
    /\ ExtractBranch(in_text) = "keywords"
    /\ Count(in_text, MissWords) = 2
    /\ Count(in_text, MatchWords) = 1
    /\ out.result["-"] = 45
    /\ out.result["strong hire"] = 65
    /\ out.result["hire"] = 55
    /\ out.result["no hire"] = 25

\* C21 (SpecSkill): for a non-empty requirement list, the overall score of
\* SkillMatcherTool is 0.7 times the percentage of required requirements
\* matched plus 0.3 times the percentage of optional requirements matched, a
\* category without requirements counting as 100; it lies within 0..100, and
\* every requirement is counted in exactly one of the four lists, the one its
\* `required` flag and its match decide.
C21_WeightedScore ==
    (out.fn = "skill_matcher" /\ ~out.result.error) =>
        LET r == out.result
            hit(i) == \E cs \in in_skills :
                         \/ IsSubstring(Normalise(in_reqs[i].skill), Normalise(cs))
                         \/ IsSubstring(Normalise(cs), Normalise(in_reqs[i].skill))
            idx(required, matched) ==
                {i \in 1..Len(in_reqs) :
                    in_reqs[i].required = required /\ hit(i) = matched}
            mr == Cardinality(idx(TRUE, TRUE))
            tr == Cardinality(idx(TRUE, TRUE) \cup idx(TRUE, FALSE))
            mo == Cardinality(idx(FALSE, TRUE))
            to == Cardinality(idx(FALSE, TRUE) \cup idx(FALSE, FALSE))
            \* ten times the score, over the denominator dr * do
            dr == IF tr > 0 THEN tr ELSE 1
            do == IF to > 0 THEN to ELSE 1
            pr == IF tr > 0 THEN 100 * mr ELSE 100
            po == IF to > 0 THEN 100 * mo ELSE 100
        IN  /\ r.overall_score.den > 0
            /\ r.overall_score.num * (10 * dr * do)
                  = (7 * pr * do + 3 * po * dr) * r.overall_score.den
            /\ 0 <= r.overall_score.num
            /\ r.overall_score.num <= 100 * r.overall_score.den
            /\ Len(r.matched_required) = mr
            /\ Len(r.missing_required) = tr - mr
            /\ Len(r.matched_optional) = mo
            /\ Len(r.missing_optional) = to - mo
            /\ Len(r.matched_required) + Len(r.missing_required)
                  + Len(r.matched_optional) + Len(r.missing_optional) = Len(in_reqs)

\* C21, its case: two required requirements of which one is matched and no
\* optional one: 0.7 * 50 + 0.3 * 100 = 65.
C21_Witness ==
    /\ out.fn = "skill_matcher"
    /\ ~out.result.error
    /\ Len(out.result.matched_required) = 1
    /\ Len(out.result.missing_required) = 1
    /\ Len(out.result.matched_optional) = 0
    /\ Len(out.result.missing_optional) = 0
    /\ out.result.overall_score.num = 65 * out.result.overall_score.den

\* C22: for a non-empty requirement list, a candidate who matches none of the
\* requirements gets the overall score 0 and a candidate who matches all of
\* them gets 100.
C22_NoneIsZeroAllIsHundred ==
    (out.fn = "skill_matcher" /\ ~out.result.error) =>
        LET r == out.result
        IN  /\ (Len(r.matched_required) = 0 /\ Len(r.matched_optional) = 0) =>
                   r.overall_score.num = 0
            /\ (Len(r.missing_required) = 0 /\ Len(r.missing_optional) = 0) =>
                   r.overall_score.num = 100 * r.overall_score.den

====
